---- MODULE Spec2Model ----
(***************************************************************************)
(* card-check: a browser application that photographs a card, runs OCR on  *)
(* it and looks the recognized text up in a keyword -> driver table loaded *)
(* from a CSV file.                                                        *)
(*                                                                         *)
(* The repository holds three copies of app.js:                            *)
(*   src/app.js                     video variant (processFrame, exact     *)
(*                                  findDriver)                            *)
(*   src/unnamed/part_000:1-171     upload variant (file input,            *)
(*                                  processImage, anchor extraction,       *)
(*                                  normalizing findDriver)                *)
(*   src/unnamed/part_000:173-381   video variant again (cropped capture)  *)
(*                                                                         *)
(* JavaScript strings are modelled as sequences of one-character strings,  *)
(* so that split, trim, includes, indexOf, substring and replace are       *)
(* computed character by character as the engine computes them.  A Hangul  *)
(* syllable (one UTF-16 code unit) is written as its romanization: "hae",  *)
(* "un", "dae" are the three characters of the first anchor, "bu", "san"   *)
(* those of the second, "ki", "wo", "deu" those of the header marker.      *)
(***************************************************************************)
EXTENDS Integers, Sequences, FiniteSets, TLC

VARIABLES
    pc,               \* which operation of a pure-function run has been applied
    rows,             \* CSV run: the rows (each a sequence of fields) the file was written from
    eol,              \* CSV run: the line terminator the file was written with
    csvText,          \* the text of drivers.csv as fetched
    driverData,       \* let driverData = []
    inputText,        \* the text handed to findDriver / extractAddressAfterAnchor
    match,            \* result of findDriver (index of the rule returned, 0 for null)
    focusText,        \* result of extractAddressAfterAnchor
    variant,          \* which app.js is running: "frame" (video) or "upload"
    loadState,        \* loadDriverData: "fetching", "loaded", "failed"
    alerts,           \* the alert() dialogs shown so far
    camera,           \* startCamera: "requesting", "streaming", "denied", "none"
    isProcessing,     \* let isProcessing = false   (video variant)
    scanBtnDisabled,  \* scanBtn.disabled
    scanBtnHidden,    \* scanBtn.classList.contains('hidden')
    scanBtnText,      \* scanBtn.textContent
    resultHidden,     \* resultContainer.classList.contains('hidden')
    recognizedTextEl, \* recognizedTextEl.textContent
    driverNameEl,     \* driverNameEl.textContent
    statusEl,         \* statusEl.textContent
    pending,          \* the scans suspended at an await of the OCR worker
    pickerOpen,       \* upload variant: the file chooser opened by cameraInput.click()
    lastEvent         \* the event whose handler ran last

csvVars == <<rows, eol, csvText>>
matchVars == <<inputText, match, focusText>>
domVars == <<scanBtnDisabled, scanBtnHidden, scanBtnText, resultHidden,
             recognizedTextEl, driverNameEl, statusEl>>
appVars == <<variant, loadState, alerts, camera, isProcessing, domVars,
             pending, pickerOpen, lastEvent>>
vars == <<pc, csvVars, driverData, matchVars, appVars>>

-----------------------------------------------------------------------------
(* Bounds of the model.                                                    *)

MaxRows == 2        \* rows of a CSV file
MaxRules == 2       \* rules of a table handed to findDriver
MaxTextLen == 3     \* characters of a text handed to findDriver
MaxAnchorLen == 6   \* characters of a text handed to extractAddressAfterAnchor
MaxPending == 2     \* scans suspended at once

BoundedSeq(S, n) == UNION {[1..k -> S] : k \in 0..n}

-----------------------------------------------------------------------------
(* Strings.                                                                *)

CR == "\r"
LF == "\n"

\* The characters String.prototype.trim and the regex class \s remove
\* (those of them the model's alphabets contain).
WhiteSpace == {" ", "\t", CR, LF}

RECURSIVE TrimStart(_)
TrimStart(s) ==
    IF s /= <<>> /\ Head(s) \in WhiteSpace THEN TrimStart(Tail(s)) ELSE s

RECURSIVE TrimEnd(_)
TrimEnd(s) ==
    IF s /= <<>> /\ s[Len(s)] \in WhiteSpace
    THEN TrimEnd(SubSeq(s, 1, Len(s) - 1)) ELSE s

\* String.prototype.trim
Trim(s) == TrimEnd(TrimStart(s))

\* String.prototype.includes(sub): sub occurs as a contiguous run of s
Includes(s, sub) ==
    \E i \in 0..(Len(s) - Len(sub)) : SubSeq(s, i + 1, i + Len(sub)) = sub

\* String.prototype.indexOf(sub): 0-based index of the leftmost occurrence, -1 if none
RECURSIVE IndexOfFrom(_, _, _)
IndexOfFrom(s, sub, i) ==
    IF i + Len(sub) > Len(s) THEN -1
    ELSE IF SubSeq(s, i + 1, i + Len(sub)) = sub THEN i
    ELSE IndexOfFrom(s, sub, i + 1)

IndexOf(s, sub) == IndexOfFrom(s, sub, 0)

\* String.prototype.substring(from) for 0 <= from
Substring(s, from) == IF from >= Len(s) THEN <<>> ELSE SubSeq(s, from + 1, Len(s))

\* csvText.split(/\r?\n/): a line ends at LF, or at CR immediately followed by
\* LF; a CR not followed by LF is an ordinary character of the line.
RECURSIVE SplitLinesFrom(_, _, _)
SplitLinesFrom(s, i, cur) ==
    IF i > Len(s) THEN <<cur>>
    ELSE IF s[i] = CR /\ i < Len(s) /\ s[i + 1] = LF
         THEN <<cur>> \o SplitLinesFrom(s, i + 2, <<>>)
    ELSE IF s[i] = LF
         THEN <<cur>> \o SplitLinesFrom(s, i + 1, <<>>)
    ELSE SplitLinesFrom(s, i + 1, Append(cur, s[i]))

\* A splitter that knows only the two-character terminator CR LF.
RECURSIVE SplitCRLFOnlyFrom(_, _, _)
SplitCRLFOnlyFrom(s, i, cur) ==
    IF i > Len(s) THEN <<cur>>
    ELSE IF s[i] = CR /\ i < Len(s) /\ s[i + 1] = LF
         THEN <<cur>> \o SplitCRLFOnlyFrom(s, i + 2, <<>>)
    ELSE SplitCRLFOnlyFrom(s, i + 1, Append(cur, s[i]))

SplitLinesCRLFOnly(s) == SplitCRLFOnlyFrom(s, 1, <<>>)

SplitLines(s) == SplitLinesFrom(s, 1, <<>>)

\* line.split(',')
RECURSIVE SplitCommaFrom(_, _, _)
SplitCommaFrom(s, i, cur) ==
    IF i > Len(s) THEN <<cur>>
    ELSE IF s[i] = "," THEN <<cur>> \o SplitCommaFrom(s, i + 1, <<>>)
    ELSE SplitCommaFrom(s, i + 1, Append(cur, s[i]))

SplitComma(s) == SplitCommaFrom(s, 1, <<>>)

-----------------------------------------------------------------------------
(* parseCSV                                                                *)

\* '키워드'
HeaderMarker == <<"ki", "wo", "deu">>

\* A parser that drops the first line whatever it holds.
startLineAlwaysSkip(lines) == 1

\* let startLine = 0; if (lines[0] && lines[0].includes(HeaderMarker)) startLine = 1;
startLine(lines) ==
    IF lines[1] /= <<>> /\ Includes(lines[1], HeaderMarker) THEN 1 ELSE 0

\* The body of the for loop, for the line at 0-based index i.
RECURSIVE parseLoop(_, _, _)
parseLoop(lines, i, data) ==
    IF i >= Len(lines) THEN data
    ELSE LET line == Trim(lines[i + 1])
             parts == SplitComma(line)
         IN  IF line = <<>> THEN parseLoop(lines, i + 1, data)
             ELSE IF Len(parts) >= 2
                  THEN parseLoop(lines, i + 1,
                           Append(data, [keyword |-> Trim(parts[1]),
                                         driver  |-> Trim(parts[2])]))
             ELSE parseLoop(lines, i + 1, data)

parseCSV(text) ==
    LET lines == SplitLines(text)
    IN  parseLoop(lines, startLine(lines), <<>>)

-----------------------------------------------------------------------------
(* findDriver                                                              *)

\* The exact-only findDriver: the 1-based index in driverData of the rule
\* returned, 0 for null.
RECURSIVE findDriverFrom(_, _)
findDriverFrom(t, i) ==
    IF i > Len(driverData) THEN 0
    ELSE IF Includes(t, driverData[i].keyword) THEN i
    ELSE findDriverFrom(t, i + 1)

\* A matcher that keeps looking and returns the last rule that qualifies.
RECURSIVE findDriverLastFrom(_, _, _)
findDriverLastFrom(t, i, best) ==
    IF i > Len(driverData) THEN best
    ELSE findDriverLastFrom(t, i + 1,
             IF Includes(t, driverData[i].keyword) THEN i ELSE best)

findDriverLast(t) == IF t = <<>> THEN 0 ELSE findDriverLastFrom(t, 1, 0)

findDriver(t) == IF t = <<>> THEN 0 ELSE findDriverFrom(t, 1)

\* The characters the class [\s\.\-\,] matches.
NormalizeChars == WhiteSpace \cup {".", "-", ","}

\* s.replace(/[\s\.\-\,]+/g, '')
Normalize(s) == SelectSeq(s, LAMBDA c : c \notin NormalizeChars)

\* The normalizing findDriver of the upload variant: each rule is tried
\* strictly and then fuzzily before the next rule is looked at.
RECURSIVE findDriverNormalizedFrom(_, _)
findDriverNormalizedFrom(t, i) ==
    IF i > Len(driverData) THEN 0
    ELSE LET normalizedText == Normalize(t)
             normalizedKeyword == Normalize(driverData[i].keyword)
         IN  IF Includes(t, driverData[i].keyword) THEN i
             ELSE IF Includes(normalizedText, normalizedKeyword) THEN i
             ELSE findDriverNormalizedFrom(t, i + 1)

findDriverNormalized(t) == IF t = <<>> THEN 0 ELSE findDriverNormalizedFrom(t, 1)

-----------------------------------------------------------------------------
(* extractAddressAfterAnchor                                               *)

\* '해운대'
Haeundae == <<"hae", "un", "dae">>
\* '부산'
Busan == <<"bu", "san">>

\* An extractor that looks for the second anchor first.
extractBusanFirst(t) ==
    IF IndexOf(t, Busan) /= -1 THEN Trim(Substring(t, IndexOf(t, Busan) + 2))
    ELSE IF IndexOf(t, Haeundae) /= -1
         THEN Trim(Substring(t, IndexOf(t, Haeundae) + 3))
    ELSE t

extractAddressAfterAnchor(t) ==
    LET haeundaeIndex == IndexOf(t, Haeundae)
        busanIndex == IndexOf(t, Busan)
    IN  IF haeundaeIndex /= -1 THEN Trim(Substring(t, haeundaeIndex + 3))
        ELSE IF busanIndex /= -1 THEN Trim(Substring(t, busanIndex + 2))
        ELSE t

-----------------------------------------------------------------------------
(* The values the variables of the application hold while a pure function   *)
(* is exercised on its own.                                                 *)

Dash == <<"-">>

AppOff ==
    /\ variant = "none"
    /\ loadState = "none"
    /\ alerts = {}
    /\ camera = "none"
    /\ isProcessing = FALSE
    /\ scanBtnDisabled = FALSE
    /\ scanBtnHidden = FALSE
    /\ scanBtnText = "scan"
    /\ resultHidden = TRUE
    /\ recognizedTextEl = Dash
    /\ driverNameEl = Dash
    /\ statusEl = "waiting"
    /\ pending = <<>>
    /\ pickerOpen = FALSE
    /\ lastEvent = "none"

-----------------------------------------------------------------------------
(* parseCSV on its own: a file is written from rows of fields with one line *)
(* terminator throughout, and parsed.                                       *)

Fields == {<<>>, <<" ">>, <<" ", "a", " ">>, <<"b">>, HeaderMarker}

RowSet ==
    {<<f>> : f \in Fields}
        \cup {<<k, d>> : k \in Fields, d \in Fields}
        \cup {<<k, d, <<"z">>>> : k \in Fields, d \in Fields}

LineTerminators == {<<CR>>, <<LF>>, <<CR, LF>>}

RECURSIVE Join(_, _)
Join(parts, sep) ==
    IF parts = <<>> THEN <<>>
    ELSE IF Len(parts) = 1 THEN parts[1]
    ELSE parts[1] \o sep \o Join(Tail(parts), sep)

RenderRow(fields) == Join(fields, <<",">>)

WriteFile(rs, terminator) == Join([i \in 1..Len(rs) |-> RenderRow(rs[i])], terminator)

InitCSV ==
    /\ pc = "input"
    /\ rows \in BoundedSeq(RowSet, MaxRows)
    /\ eol \in LineTerminators
    /\ csvText = WriteFile(rows, eol)
    /\ driverData = <<>>
    /\ inputText = <<>> /\ match = 0 /\ focusText = <<>>
    /\ AppOff

\* driverData = parseCSV(text)
LoadCSV ==
    /\ pc = "input"
    /\ driverData' = parseCSV(csvText)
    /\ pc' = "parsed"
    /\ UNCHANGED <<csvVars, matchVars, appVars>>

NextCSV == LoadCSV

SpecCSV == InitCSV /\ [][NextCSV]_vars

-----------------------------------------------------------------------------
(* findDriver on its own, in both variants, on a table and a text.          *)

MatchAlphabet == {"a", "A", " ", "-", "."}

KeywordSet ==
    {<<>>, <<"a">>, <<"A">>, <<"a", "A">>, <<"a", " ", "A">>, <<"a", "-", "A">>,
     <<"a", ".">>}

\* The table with the given keywords; rule i is assigned to driver "D<i>".
TableOf(kws) ==
    [i \in 1..Len(kws) |-> [keyword |-> kws[i], driver |-> <<"D", ToString(i)>>]]

InitMatch ==
    /\ pc = "input"
    /\ rows = <<>> /\ eol = <<LF>> /\ csvText = <<>>
    /\ driverData \in {TableOf(kws) : kws \in BoundedSeq(KeywordSet, MaxRules)}
    /\ inputText \in BoundedSeq(MatchAlphabet, MaxTextLen)
    /\ match = 0
    /\ focusText = <<>>
    /\ AppOff

FindExact ==
    /\ pc = "input"
    /\ match' = findDriver(inputText)
    /\ pc' = "exact"
    /\ UNCHANGED <<csvVars, driverData, inputText, focusText, appVars>>

FindNormalized ==
    /\ pc = "input"
    /\ match' = findDriverNormalized(inputText)
    /\ pc' = "normalized"
    /\ UNCHANGED <<csvVars, driverData, inputText, focusText, appVars>>

NextMatch == FindExact \/ FindNormalized

SpecMatch == InitMatch /\ [][NextMatch]_vars

-----------------------------------------------------------------------------
(* extractAddressAfterAnchor on its own.                                    *)

AnchorAlphabet == {"hae", "un", "dae", "bu", "san", " ", "x"}

InitAnchor ==
    /\ pc = "input"
    /\ rows = <<>> /\ eol = <<LF>> /\ csvText = <<>>
    /\ driverData = <<>>
    /\ inputText \in BoundedSeq(AnchorAlphabet, MaxAnchorLen)
    /\ match = 0
    /\ focusText = <<>>
    /\ AppOff

ExtractAnchor ==
    /\ pc = "input"
    /\ focusText' = extractAddressAfterAnchor(inputText)
    /\ pc' = "anchored"
    /\ UNCHANGED <<csvVars, driverData, inputText, match, appVars>>

NextAnchor == ExtractAnchor

SpecAnchor == InitAnchor /\ [][NextAnchor]_vars

-----------------------------------------------------------------------------
(* The application: the page after its scripts ran and the load event       *)
(* fired, so loadDriverData() is suspended at fetch() and, in the video     *)
(* variant, startCamera() at getUserMedia().                                *)
(*                                                                          *)
(* User events reach a control only while the browser delivers them: a      *)
(* click on scanBtn while it is disabled or carries the class 'hidden' runs *)
(* no handler, and resetBtn is taken to be shown with resultContainer.      *)
(* The file chooser opened by cameraInput.click() is modal.                 *)

\* Texts of the page, by what they say.
RecognitionFailed == <<"TEXT_RECOGNITION_FAILED">>      \* '텍스트 인식 실패'
NoDriverFrame == <<"NO_DRIVER_OR_UNRECOGNIZED">>        \* '담당자 없음 / 인식 불가'
NoDriverUpload == <<"NO_DRIVER">>                       \* '담당자 없음'

\* The bodies fetch('drivers.csv') may resolve to.
CsvBodies == {<<>>, <<"a", ",", "X">>, <<",", "Y">>}

\* The texts worker.recognize may resolve to.
OcrTexts ==
    {<<>>, <<" ", "a", LF>>, <<"x">>, <<"hae", "un", "dae", " ", "x">>}

\* text.replace(/\s+/g, ' ').trim()
RECURSIVE CollapseSpaces(_)
CollapseSpaces(s) ==
    IF s = <<>> THEN <<>>
    ELSE IF Head(s) \in WhiteSpace
         THEN <<" ">> \o CollapseSpaces(TrimStart(s))
    ELSE <<Head(s)>> \o CollapseSpaces(Tail(s))

Clean(raw) == Trim(CollapseSpaces(raw))

InitApp ==
    /\ pc = "app"
    /\ rows = <<>> /\ eol = <<LF>> /\ csvText = <<>>
    /\ driverData = <<>>
    /\ inputText = <<>> /\ match = 0 /\ focusText = <<>>
    /\ variant \in {"frame", "upload"}
    /\ loadState = "fetching"
    /\ alerts = {}
    /\ camera = IF variant = "frame" THEN "requesting" ELSE "none"
    /\ isProcessing = FALSE
    /\ scanBtnDisabled = FALSE
    /\ scanBtnHidden = FALSE
    /\ scanBtnText = "scan"
    /\ resultHidden = TRUE
    /\ recognizedTextEl = Dash
    /\ driverNameEl = Dash
    /\ statusEl = "waiting"
    /\ pending = <<>>
    /\ pickerOpen = FALSE
    /\ lastEvent = "none"

\* loadDriverData: fetch() or response.text() rejected; the catch block.
FetchReject ==
    /\ pc = "app"
    /\ loadState = "fetching"
    /\ loadState' = "failed"
    /\ alerts' = alerts \cup {"load failed"}
    /\ lastEvent' = "fetch"
    /\ UNCHANGED <<pc, csvVars, driverData, matchVars, variant, camera,
                   isProcessing, domVars, pending, pickerOpen>>

\* loadDriverData: the response text arrived; driverData = parseCSV(text).
FetchResolve ==
    /\ pc = "app"
    /\ loadState = "fetching"
    /\ \E body \in CsvBodies :
          /\ csvText' = body
          /\ driverData' = parseCSV(body)
    /\ loadState' = "loaded"
    /\ lastEvent' = "fetch"
    /\ UNCHANGED <<pc, rows, eol, matchVars, variant, alerts, camera,
                   isProcessing, domVars, pending, pickerOpen>>

\* startCamera: getUserMedia resolved; video.srcObject = stream.
CameraGranted ==
    /\ pc = "app"
    /\ camera = "requesting"
    /\ camera' = "streaming"
    /\ lastEvent' = "camera"
    /\ UNCHANGED <<pc, csvVars, driverData, matchVars, variant, loadState,
                   alerts, isProcessing, domVars, pending, pickerOpen>>

\* startCamera: getUserMedia rejected; the catch block.
CameraDenied ==
    /\ pc = "app"
    /\ camera = "requesting"
    /\ camera' = "denied"
    /\ alerts' = alerts \cup {"camera denied"}
    /\ lastEvent' = "camera"
    /\ UNCHANGED <<pc, csvVars, driverData, matchVars, variant, loadState,
                   isProcessing, domVars, pending, pickerOpen>>

\* processFrame up to its first await.  Without a video frame
\* (video.videoWidth is 0) getImageData throws ahead of the try block: the
\* function ends there, with what it has assigned so far.
processFrame ==
    IF isProcessing
    THEN UNCHANGED <<isProcessing, domVars, pending, pickerOpen>>
    ELSE /\ Len(pending) < MaxPending
         /\ isProcessing' = TRUE
         /\ scanBtnDisabled' = TRUE
         /\ scanBtnText' = "analyzing"
         /\ statusEl' = "analyzing"
         /\ pending' = IF camera = "streaming"
                       THEN Append(pending, [stale |-> FALSE]) ELSE pending
         /\ UNCHANGED <<scanBtnHidden, resultHidden, recognizedTextEl,
                        driverNameEl, pickerOpen>>

\* scanBtn's click listener of the upload variant: cameraInput.click()
openPicker ==
    /\ pickerOpen' = TRUE
    /\ UNCHANGED <<isProcessing, domVars, pending>>

\* The user presses the scan button.
ScanBtnClick ==
    /\ pc = "app"
    /\ ~pickerOpen
    /\ IF scanBtnDisabled \/ scanBtnHidden
       THEN /\ lastEvent' = "scanClickNotDelivered"
            /\ UNCHANGED <<isProcessing, domVars, pending, pickerOpen>>
       ELSE /\ lastEvent' = "scanClick"
            /\ IF variant = "frame" THEN processFrame ELSE openPicker
    /\ UNCHANGED <<pc, csvVars, driverData, matchVars, variant, loadState,
                   alerts, camera>>

\* A change listener that leaves the scan button enabled.
changeHandlerNoDisable ==
    /\ Len(pending) < MaxPending
    /\ scanBtnText' = "analyzing"
    /\ statusEl' = "analyzing photo"
    /\ resultHidden' = FALSE
    /\ pending' = Append(pending, [stale |-> FALSE])
    /\ UNCHANGED <<scanBtnDisabled, isProcessing, scanBtnHidden, recognizedTextEl,
                   driverNameEl>>

\* cameraInput's change listener with a file, up to the first await of
\* processImage.
changeHandler ==
    /\ Len(pending) < MaxPending
    /\ scanBtnDisabled' = TRUE
    /\ scanBtnText' = "analyzing"
    /\ statusEl' = "analyzing photo"
    /\ resultHidden' = FALSE
    /\ pending' = Append(pending, [stale |-> FALSE])
    /\ UNCHANGED <<isProcessing, scanBtnHidden, recognizedTextEl, driverNameEl>>

\* The user picks a photo in the file chooser.
FileSelected ==
    /\ pc = "app"
    /\ variant = "upload"
    /\ pickerOpen
    /\ pickerOpen' = FALSE
    /\ changeHandler
    /\ lastEvent' = "fileSelected"
    /\ UNCHANGED <<pc, csvVars, driverData, matchVars, variant, loadState,
                   alerts, camera>>

\* The user dismisses the file chooser: no file (if (!file) return).
PickerCancel ==
    /\ pc = "app"
    /\ variant = "upload"
    /\ pickerOpen
    /\ pickerOpen' = FALSE
    /\ lastEvent' = "pickerCancel"
    /\ UNCHANGED <<pc, csvVars, driverData, matchVars, variant, loadState,
                   alerts, camera, isProcessing, domVars, pending>>

Remove(q, i) == SubSeq(q, 1, i - 1) \o SubSeq(q, i + 1, Len(q))

\* The finally block.
Finally ==
    /\ isProcessing' = FALSE
    /\ scanBtnDisabled' = FALSE
    /\ scanBtnText' = IF variant = "frame" THEN "scan" ELSE "retake"

\* The rule findDriver returns for the recognized text, as the variant
\* running looks it up.
MatchOf(cleanedText) ==
    IF variant = "frame" THEN findDriver(cleanedText)
    ELSE findDriverNormalized(extractAddressAfterAnchor(cleanedText))

\* worker.recognize resolved: the rest of the try block, then finally.
OCRResolve ==
    /\ pc = "app"
    /\ \E i \in 1..Len(pending), raw \in OcrTexts :
          LET cleanedText == Clean(raw)
              m == MatchOf(cleanedText)
          IN  /\ pending' = Remove(pending, i)
              /\ recognizedTextEl' =
                     IF cleanedText = <<>> THEN RecognitionFailed ELSE cleanedText
              /\ driverNameEl' =
                     IF m /= 0 THEN driverData[m].driver
                     ELSE IF variant = "frame" THEN NoDriverFrame
                     ELSE NoDriverUpload
              /\ statusEl' =
                     IF variant = "frame"
                     THEN (IF m /= 0 THEN "classified" ELSE "match failed")
                     ELSE (IF m /= 0 THEN "keyword matched"
                           ELSE "address not recognized")
    /\ resultHidden' = IF variant = "frame" THEN FALSE ELSE resultHidden
    /\ scanBtnHidden' = IF variant = "frame" THEN TRUE ELSE scanBtnHidden
    /\ Finally
    /\ lastEvent' = "ocr"
    /\ UNCHANGED <<pc, csvVars, driverData, matchVars, variant, loadState,
                   alerts, camera, pickerOpen>>

\* createWorker, recognize or terminate rejected: the catch block, then finally.
OCRReject ==
    /\ pc = "app"
    /\ \E i \in 1..Len(pending) : pending' = Remove(pending, i)
    /\ alerts' = alerts \cup {"analysis error"}
    /\ statusEl' = IF variant = "frame" THEN "error" ELSE statusEl
    /\ Finally
    /\ lastEvent' = "ocr"
    /\ UNCHANGED <<pc, csvVars, driverData, matchVars, variant, loadState,
                   camera, scanBtnHidden, resultHidden, recognizedTextEl,
                   driverNameEl, pickerOpen>>

\* resetBtn's click listener.  The scans still suspended are marked as
\* started before this reset.
ResetClick ==
    /\ pc = "app"
    /\ ~resultHidden
    /\ ~pickerOpen
    /\ resultHidden' = TRUE
    /\ scanBtnHidden' = IF variant = "frame" THEN FALSE ELSE scanBtnHidden
    /\ recognizedTextEl' = Dash
    /\ driverNameEl' = Dash
    /\ statusEl' = "waiting"
    /\ pending' = [i \in 1..Len(pending) |-> [stale |-> TRUE]]
    /\ lastEvent' = "reset"
    /\ UNCHANGED <<pc, csvVars, driverData, matchVars, variant, loadState,
                   alerts, camera, isProcessing, scanBtnDisabled, scanBtnText,
                   pickerOpen>>

OCRSettles == OCRResolve \/ OCRReject

NextApp ==
    \/ FetchReject
    \/ FetchResolve
    \/ CameraGranted
    \/ CameraDenied
    \/ ScanBtnClick
    \/ FileSelected
    \/ PickerCancel
    \/ OCRResolve
    \/ OCRReject
    \/ ResetClick

SpecApp == InitApp /\ [][NextApp]_vars

\* A promise of the OCR worker is settled in the end, one way or the other.
FairSpecApp == SpecApp /\ WF_vars(OCRSettles)

-----------------------------------------------------------------------------
(* Claims about parseCSV.                                                   *)

\* What a row of fields contributes to the table: the rule of its first two
\* fields, trimmed, when it has at least two fields.
RuleOfRow(fields) ==
    IF Len(fields) >= 2
    THEN <<[keyword |-> Trim(fields[1]), driver |-> Trim(fields[2])]>>
    ELSE <<>>

RECURSIVE RulesOfRows(_)
RulesOfRows(rs) ==
    IF rs = <<>> THEN <<>> ELSE RuleOfRow(Head(rs)) \o RulesOfRows(Tail(rs))

\* C3 as stated: the rows joined with CR alone, LF alone or CRLF parse to the
\* same table (the one the LF-joined file parses to).
C3_AnyLineEnding ==
    pc = "parsed" => driverData = parseCSV(WriteFile(rows, <<LF>>))

\* C3 amended: the rows joined with LF alone or with CRLF parse to the same
\* table, rule for rule and in the same order; a CR that no LF follows does
\* not end a line.
C3_LfAndCrLfAgree ==
    (pc = "parsed" /\ eol /= <<CR>>) =>
        driverData = parseCSV(WriteFile(rows, <<LF>>))

C3_Witness ==
    /\ pc = "parsed"
    /\ eol = <<CR, LF>>
    /\ Len(rows) = 2
    /\ Len(driverData) = 2

\* C4: a row with fewer than two non-empty fields contributes no rule, so no
\* rule of the parsed table has an empty keyword.
C4_KeywordsNonEmpty ==
    pc = "parsed" =>
        \A i \in 1..Len(driverData) : driverData[i].keyword /= <<>>

\* C5: when the first line holds the header marker the first row is left out
\* of the table and every other row is parsed as data, marker or not; when
\* the first line does not hold it, every row is parsed as data.
C5_HeaderOnlyOnFirstLine ==
    (pc = "parsed" /\ eol /= <<CR>> /\ rows /= <<>>) =>
        driverData = IF Includes(RenderRow(rows[1]), HeaderMarker)
                     THEN RulesOfRows(Tail(rows))
                     ELSE RulesOfRows(rows)

C5_Witness ==
    /\ pc = "parsed"
    /\ eol /= <<CR>>
    /\ Len(rows) = 2
    /\ Len(rows[1]) = 2
    /\ Includes(RenderRow(rows[1]), HeaderMarker)
    /\ Includes(RenderRow(rows[2]), HeaderMarker)
    /\ Len(driverData) = 1

-----------------------------------------------------------------------------
(* Claims about findDriver.                                                 *)

\* The rules of driverData whose keyword is a literal substring of t.
ExactMatches(t) ==
    {i \in 1..Len(driverData) : Includes(t, driverData[i].keyword)}

\* C1: in the normalizing findDriver, when some keyword is a literal
\* substring of the (non-empty) text, the rule returned is the first such
\* rule, even when an earlier rule matches after normalization only.
C1_ExactPassFirst ==
    (pc = "normalized" /\ inputText /= <<>> /\ ExactMatches(inputText) /= {}) =>
        /\ match \in ExactMatches(inputText)
        /\ \A j \in ExactMatches(inputText) : match <= j

\* C2: on a non-empty text the exact-only findDriver returns the rule of
\* smallest index whose keyword is a literal substring of the text, and null
\* when there is none.
C2_FirstExactMatch ==
    (pc = "exact" /\ inputText /= <<>>) =>
        IF ExactMatches(inputText) = {} THEN match = 0
        ELSE /\ match \in ExactMatches(inputText)
             /\ \A j \in ExactMatches(inputText) : match <= j

\* Overlapping keywords: the second rule's keyword is part of the first
\* rule's, the text holds the shorter one only, and the second rule is
\* returned.
C2_Witness ==
    /\ pc = "exact"
    /\ Len(driverData) = 2
    /\ driverData[1].keyword = <<"a", " ", "A">>
    /\ driverData[2].keyword = <<"a">>
    /\ inputText = <<"a", "A">>
    /\ match = 2

-----------------------------------------------------------------------------
(* Claims about extractAddressAfterAnchor.                                  *)

\* t from its 1-based position p on, trimmed.
After(t, p) == Trim(IF p > Len(t) THEN <<>> ELSE SubSeq(t, p, Len(t)))

\* The 1-based positions at which a occurs in t.
Occurrences(t, a) ==
    {p \in 1..Len(t) : p + Len(a) - 1 <= Len(t) /\ SubSeq(t, p, p + Len(a) - 1) = a}

Leftmost(S) == CHOOSE p \in S : \A q \in S : p <= q

\* C6: with the first anchor in the text the result is what follows its
\* leftmost occurrence, trimmed, wherever the second anchor is; the second
\* anchor counts only without the first; without both the text is returned
\* as it is.
C6_AnchorPriority ==
    pc = "anchored" =>
        IF Occurrences(inputText, Haeundae) /= {}
        THEN focusText =
                 After(inputText, Leftmost(Occurrences(inputText, Haeundae)) + 3)
        ELSE IF Occurrences(inputText, Busan) /= {}
        THEN focusText =
                 After(inputText, Leftmost(Occurrences(inputText, Busan)) + 2)
        ELSE focusText = inputText

\* Both anchors occur, the second one first, and the result follows the
\* first anchor.
C6_Witness ==
    /\ pc = "anchored"
    /\ inputText = <<"bu", "san", "hae", "un", "dae", "x">>
    /\ focusText = <<"x">>

-----------------------------------------------------------------------------
(* Claims about the application.                                            *)

\* C7: when drivers.csv cannot be fetched or is empty, the user is warned,
\* driverData is empty, and no recognized text finds a driver.
C7_LoadFailureWarns ==
    (loadState = "failed" \/ (loadState = "loaded" /\ csvText = <<>>)) =>
        /\ "load failed" \in alerts
        /\ driverData = <<>>
        /\ \A raw \in OcrTexts : MatchOf(Clean(raw)) = 0

\* C8: at most one scan is in flight at a time, and a press of the scan
\* button while a scan is in flight changes nothing.
C8_ScansSerialized ==
    /\ [](Len(pending) <= 1)
    /\ [][(Len(pending) >= 1 /\ lastEvent' \in {"scanClick", "scanClickNotDelivered"})
            => UNCHANGED <<driverData, variant, loadState, alerts, camera,
                           isProcessing, domVars, pending, pickerOpen>>]_vars

\* A scan is in flight and the scan button has just been pressed.
C8_Witness ==
    /\ Len(pending) = 1
    /\ lastEvent = "scanClickNotDelivered"

\* C9, its last clause: after a reset the display stays cleared until a new
\* scan is started, that is, no result of a scan started before the reset
\* is written after it.
C9_NoResultOfEarlierScanAfterReset ==
    [][\A i \in 1..Len(pending) :
          (pending' = Remove(pending, i) /\ driverNameEl' /= driverNameEl)
              => ~pending[i].stale]_vars

\* C10: whenever processFrame has set isProcessing, isProcessing becomes
\* false again and the scan button is enabled again.
C10_BusyFlagCleared ==
    isProcessing ~> (~isProcessing /\ ~scanBtnDisabled)

====
